---- MODULE Spec2Model ----
(***************************************************************************)
(* A model of src/main/rust/src/main.rs (kimono-koans/1brc): the chunked   *)
(* reader (StationMap::exec), the chunk aggregators                        *)
(* (spawn_buffer_worker), the periodic merge workers (spawn_queue_worker), *)
(* the merge pass (read_queue_to_map), the final drain and the printer     *)
(* (print_map), with the record parser (parse_i32) and the aggregate       *)
(* arithmetic (StationValues) they use.                                    *)
(*                                                                         *)
(* Bytes are their ASCII codes, byte strings are sequences of codes.       *)
(* i32 additions wrap as the optimised build's do (two's complement).      *)
(***************************************************************************)
EXTENDS Integers, Sequences, FiniteSets, TLC

VARIABLES
    input,              \* the bytes of the file at self.path
    uuidOf,             \* Record::uuid on the names of the input: name -> u64 digest
    mainpc,             \* position of the driving thread in try_main / exec
    total_bytes_read,   \* exec: total_bytes_read (also the reader's offset in the file)
    iter_count,         \* exec: iter_count
    hangup,             \* StationMap.hangup
    exclusive,          \* StationMap.exclusive
    queue,              \* StationMap.queue: the local tables pushed and not yet taken
    queue_lock,         \* holder of the queue mutex, or Free
    map,                \* StationMap.map: uuid -> Record
    map_lock,           \* holder of the map mutex, or Free
    workers,            \* the tasks spawned by spawn_buffer_worker, in spawn order
    qworkers,           \* the tasks spawned by spawn_queue_worker, in spawn order
    main_taken,         \* queue_taken of the read_queue_to_map call try_main makes
    folded,             \* history, per worker: the folds of its table into map, by whom,
                        \* and whether it was pushed while a merge pass held a taken batch
    stdout,             \* the bytes print_map has written to standard output
    groups,             \* SpecAgg: the StationValues of one name, one per group of records
    direct,             \* SpecAgg: the StationValues folding every record as it arrives
    observed,           \* SpecAgg, history: what each group has observed, exactly
    agg_steps,          \* SpecAgg, history: the runs of records and the merges so far
    retry               \* SpecBackoff: one aggregator's try_lock loop, lines 149-168

pipeVars == <<input, uuidOf, mainpc, total_bytes_read, iter_count, hangup, exclusive,
              queue, queue_lock, map, map_lock, workers, qworkers, main_taken,
              folded, stdout>>
aggVars == <<groups, direct, observed, agg_steps>>
retryVars == <<retry>>
vars == <<pipeVars, aggVars, retryVars>>

(***************************************************************************)
(* Bytes                                                                   *)
(***************************************************************************)
NL == 10
CR == 13
PLUS == 43
MINUS == 45
DOT == 46
SLASH == 47
ZERO == 48
SEMI == 59

IsDigit(b) == b >= ZERO /\ b <= ZERO + 9

\* The position of the first byte b in s, 0 when there is none.
FirstIdx(s, b) ==
    IF \E i \in 1..Len(s) : s[i] = b
    THEN CHOOSE i \in 1..Len(s) : s[i] = b /\ \A j \in 1..(i - 1) : s[j] # b
    ELSE 0

Min2(a, b) == IF a <= b THEN a ELSE b
Max2(a, b) == IF a >= b THEN a ELSE b

None == [some |-> FALSE]
Some(v) == [some |-> TRUE, val |-> v]

(***************************************************************************)
(* str::lines and str::split_once, as spawn_buffer_worker uses them        *)
(***************************************************************************)
RECURSIVE split_inclusive(_)
split_inclusive(s) ==
    IF s = <<>> THEN <<>>
    ELSE LET i == FirstIdx(s, NL)
         IN  IF i = 0 THEN <<s>>
             ELSE <<SubSeq(s, 1, i)>> \o split_inclusive(SubSeq(s, i + 1, Len(s)))

\* A piece without its "\n" or "\r\n" ending.
strip_line_ending(piece) ==
    IF piece # <<>> /\ piece[Len(piece)] = NL
    THEN LET p == SubSeq(piece, 1, Len(piece) - 1)
         IN  IF p # <<>> /\ p[Len(p)] = CR THEN SubSeq(p, 1, Len(p) - 1) ELSE p
    ELSE piece

lines(s) ==
    LET pieces == split_inclusive(s)
    IN  [k \in 1..Len(pieces) |-> strip_line_ending(pieces[k])]

\* A split that takes a line without ';' for a record with an empty value.
split_once_lenient(line) ==
    LET i == FirstIdx(line, SEMI)
    IN  IF i = 0 THEN Some([station |-> line, temp |-> <<>>])
        ELSE Some([station |-> SubSeq(line, 1, i - 1),
                   temp |-> SubSeq(line, i + 1, Len(line))])

split_once(line) ==
    LET i == FirstIdx(line, SEMI)
    IN  IF i = 0 THEN None
        ELSE Some([station |-> SubSeq(line, 1, i - 1),
                   temp |-> SubSeq(line, i + 1, Len(line))])

(***************************************************************************)
(* parse_i32                                                               *)
(***************************************************************************)
Ok(v) == [kind |-> "ok", val |-> v]
Err == [kind |-> "err", val |-> 0]
Unreachable == [kind |-> "unreachable", val |-> 0]

RECURSIVE digits_value(_, _)
digits_value(ds, acc) ==
    IF ds = <<>> THEN acc
    ELSE digits_value(Tail(ds), acc * 10 + (Head(ds) - ZERO))

\* i32::from_ascii: an optional sign, then one or more decimal digits.
from_ascii(src) ==
    LET signed == src # <<>> /\ src[1] \in {PLUS, MINUS}
        digits == IF signed THEN Tail(src) ELSE src
    IN  IF digits = <<>> \/ \E i \in 1..Len(digits) : ~IsDigit(digits[i])
        THEN Err
        ELSE IF signed /\ src[1] = MINUS
             THEN Ok(0 - digits_value(digits, 0))
             ELSE Ok(digits_value(digits, 0))

Negated(r) == IF r.kind = "ok" THEN Ok(0 - r.val) ELSE r

parse_i32(value) ==
    LET n == Len(value)
    IN  IF n = 6 /\ value[1] = MINUS /\ value[5] = DOT
        THEN Negated(from_ascii(<<value[2], value[3], value[4], value[6]>>))
        ELSE IF n = 5 /\ value[1] = MINUS /\ value[4] = DOT
        THEN Negated(from_ascii(<<value[2], value[3], value[5]>>))
        ELSE IF n = 4 /\ value[1] = MINUS /\ value[3] = DOT
        THEN Negated(from_ascii(<<value[2], value[4]>>))
        ELSE IF n = 5 /\ value[4] = DOT
        THEN from_ascii(<<value[1], value[2], value[3], value[5]>>)
        ELSE IF n = 4 /\ value[3] = DOT
        THEN from_ascii(<<value[1], value[2], value[4]>>)
        ELSE IF n = 3 /\ value[2] = DOT
        THEN from_ascii(<<value[1], value[3]>>)
        ELSE Unreachable

(***************************************************************************)
(* StationValues                                                           *)
(***************************************************************************)
I32_MAX == 2147483647

\* a + b in i32, wrapping; every intermediate value stays inside i32.
wrapping_add(a, b) ==
    IF b > 0 /\ a > I32_MAX - b
    THEN (a - I32_MAX - 1) + (b - I32_MAX - 1)
    ELSE IF b < 0 /\ a < ((0 - I32_MAX) - b) - 1
    THEN (a + I32_MAX + 1) + (b + I32_MAX + 1)
    ELSE a + b

\* a + b in u32, wrapping. The u32 count is held as its 32-bit pattern read as an
\* i32 (a count below 2^31 is itself, 2^32 - 1 is -1, and 0 is 0); the wrapping sum
\* of two patterns is the pattern of the wrapping sum.
u32_wrapping_add(a, b) == wrapping_add(a, b)

StationValues_new(initial_value) ==
    [min |-> initial_value, max |-> initial_value, sum |-> initial_value, count |-> 1]

update(self, new_value) ==
    [min |-> Min2(self.min, new_value),
     max |-> Max2(self.max, new_value),
     sum |-> wrapping_add(self.sum, new_value),
     count |-> u32_wrapping_add(self.count, 1)]

\* A merge that keeps its own min.
merge_keeping_min(self, other) ==
    [min |-> self.min,
     max |-> Max2(self.max, other.max),
     sum |-> wrapping_add(self.sum, other.sum),
     count |-> u32_wrapping_add(self.count, other.count)]

merge(self, other) ==
    [min |-> Min2(self.min, other.min),
     max |-> Max2(self.max, other.max),
     sum |-> wrapping_add(self.sum, other.sum),
     count |-> u32_wrapping_add(self.count, other.count)]

(***************************************************************************)
(* Record                                                                  *)
(***************************************************************************)
Record_new(station_name, initial_value) ==
    [station_name |-> station_name, values |-> StationValues_new(initial_value)]

\* foldhash's digest of the name; which names share a digest is fixed by Init.
Record_uuid(station_name) == uuidOf[station_name]

(***************************************************************************)
(* f32 arithmetic of StationValues::mean / min / max and the {:.1} format  *)
(*                                                                         *)
(* An f32 is [neg, m, k]: the value (-1)^neg * m / 2^k with m < 2^24 + 1.  *)
(* `x as f32` and `count as f32 * 10.0` are exact below 2^24, so the only  *)
(* rounding is the division's (to nearest, ties to even); the arithmetic   *)
(* below is exact for |p| < 2^24 and q < 2^7.                              *)
(***************************************************************************)
Abs(a) == IF a < 0 THEN 0 - a ELSE a

\* n / d rounded to the nearest integer, ties to the even one (n >= 0, d > 0).
round_half_even(n, d) ==
    LET m == n \div d
        r == n % d
    IN  IF 2 * r > d \/ (2 * r = d /\ m % 2 = 1) THEN m + 1 ELSE m

\* The least k with n * 2^k >= 2^23 * q, and n * 2^k.
RECURSIVE f32_scale(_, _, _)
f32_scale(n, q, k) ==
    IF n >= (2 ^ 23) * q THEN [n |-> n, k |-> k] ELSE f32_scale(2 * n, q, k + 1)

\* (p as f32) / (q as f32) for an integer p and an integer q > 0.
f32_div(p, q) ==
    IF p = 0 THEN [neg |-> FALSE, m |-> 0, k |-> 0]
    ELSE LET s == f32_scale(Abs(p), q, 0)
         IN  [neg |-> p < 0, m |-> round_half_even(s.n, q), k |-> s.k]

\* A mean that forgets the scale of the stored tenths.
mean_unscaled(self) == f32_div(self.sum, self.count)

mean(self) == f32_div(self.sum, self.count * 10)
min(self) == f32_div(self.min, 10)
max(self) == f32_div(self.max, 10)

RECURSIVE decimal(_)
decimal(n) == IF n < 10 THEN <<ZERO + n>> ELSE decimal(n \div 10) \o <<ZERO + (n % 10)>>

\* format!("{:.1}", x): the sign of x, then x rounded to one fractional digit.
fmt_1(x) ==
    LET t == round_half_even(10 * x.m, 2 ^ x.k)
    IN  (IF x.neg THEN <<MINUS>> ELSE <<>>) \o decimal(t \div 10) \o <<DOT, ZERO + (t % 10)>>

EQUALS == 61

\* impl fmt::Display for Record
Record_fmt(rec) ==
    rec.station_name \o <<EQUALS>> \o fmt_1(min(rec.values)) \o <<SLASH>>
        \o fmt_1(mean(rec.values)) \o <<SLASH>> \o fmt_1(max(rec.values))

(***************************************************************************)
(* The chunk aggregator's fold (spawn_buffer_worker, lines 126-147)        *)
(***************************************************************************)
EmptyMap == [u \in {} |-> None]

\* One step of the for_each: update the entry of the name's uuid or insert one.
fold_record(local_map, station_name, temp_int) ==
    LET uuid == Record_uuid(station_name)
    IN  IF uuid \in DOMAIN local_map
        THEN [local_map EXCEPT ![uuid].values = update(@, temp_int)]
        ELSE local_map @@ (uuid :> Record_new(station_name, temp_int))

\* The iterator chain over the lines ls, from line i on: a line without ';' and
\* a record whose token from_ascii rejects are skipped; a token of no arm of
\* parse_i32 panics the task.
RECURSIVE fold_lines(_, _, _)
fold_lines(ls, i, local_map) ==
    IF i > Len(ls) THEN [panic |-> FALSE, local_map |-> local_map]
    ELSE LET split == split_once(ls[i])
         IN  IF ~split.some THEN fold_lines(ls, i + 1, local_map)
             ELSE LET parsed == parse_i32(split.val.temp)
                  IN  IF parsed.kind = "unreachable"
                      THEN [panic |-> TRUE, local_map |-> EmptyMap]
                      ELSE IF parsed.kind = "err"
                      THEN fold_lines(ls, i + 1, local_map)
                      ELSE fold_lines(ls, i + 1,
                                      fold_record(local_map, split.val.station, parsed.val))

aggregate_chunk(bytes_buffer) == fold_lines(lines(bytes_buffer), 1, EmptyMap)

(***************************************************************************)
(* The merge pass's fold (read_queue_to_map, lines 200-210)                *)
(***************************************************************************)
\* A merge pass that inserts v over the entry of k instead of merging into it.
fold_table_overwriting(map_locked, table) ==
    [k \in DOMAIN map_locked \cup DOMAIN table |->
        IF k \in DOMAIN table THEN table[k] ELSE map_locked[k]]

\* Every (k, v) of one taken table: merge into the entry of k or insert v.
fold_table(map_locked, table) ==
    [k \in DOMAIN map_locked \cup DOMAIN table |->
        IF k \in DOMAIN map_locked
        THEN IF k \in DOMAIN table
             THEN [map_locked[k] EXCEPT !.values = merge(@, table[k].values)]
             ELSE map_locked[k]
        ELSE table[k]]

RECURSIVE fold_taken(_, _)
fold_taken(map_locked, queue_taken) ==
    IF queue_taken = <<>> THEN map_locked
    ELSE fold_taken(fold_table(map_locked, Head(queue_taken).table), Tail(queue_taken))

(***************************************************************************)
(* print_map                                                               *)
(***************************************************************************)
LBRACE == 123
RBRACE == 125
COMMA == 44
SPACE == 32

\* str's Ord: byte-lexicographic, a proper prefix first.
str_less(a, b) ==
    \/ \E i \in 1..Min2(Len(a), Len(b)) :
          a[i] < b[i] /\ \A j \in 1..(i - 1) : a[j] = b[j]
    \/ Len(a) < Len(b) /\ \A j \in 1..Len(a) : a[j] = b[j]

\* A sort whose comparator has its arguments the wrong way round.
RECURSIVE sorted_by_name_reversed(_)
sorted_by_name_reversed(recs) ==
    IF recs = {} THEN <<>>
    ELSE LET first == CHOOSE r \in recs :
                          \A o \in recs : ~str_less(r.station_name, o.station_name)
         IN  <<first>> \o sorted_by_name_reversed(recs \ {first})

\* The records of recs in the order par_sort_unstable_by leaves them.
RECURSIVE sorted_by_name(_)
sorted_by_name(recs) ==
    IF recs = {} THEN <<>>
    ELSE LET first == CHOOSE r \in recs :
                          \A o \in recs : ~str_less(o.station_name, r.station_name)
         IN  <<first>> \o sorted_by_name(recs \ {first})

RECURSIVE write_entries(_)
write_entries(sorted) ==
    IF sorted = <<>> THEN <<>>
    ELSE Record_fmt(Head(sorted)) \o <<COMMA, SPACE>> \o write_entries(Tail(sorted))

rendered(map_locked) ==
    LET sorted == sorted_by_name({map_locked[k] : k \in DOMAIN map_locked})
        n == Len(sorted)
    IN  <<LBRACE>>
        \o (IF n = 0 THEN <<>>
            ELSE write_entries(SubSeq(sorted, 1, n - 1)) \o Record_fmt(sorted[n]))
        \o <<RBRACE, NL>>

(***************************************************************************)
(* What the claims speak of: the records of a byte string read directly,   *)
(* by the input format (one `name;value` per line, value -?d{1,3}.d).      *)
(***************************************************************************)
LineStarts(s) == {p \in 1..Len(s) : p = 1 \/ s[p - 1] = NL}

\* The line starting at p, without its ending.
LineAt(s, p) ==
    LET ends == {q \in p..Len(s) : s[q] = NL}
        stop == IF ends = {} THEN Len(s) + 1
                ELSE CHOOSE q \in ends : \A o \in ends : q <= o
        last == IF stop <= Len(s) /\ stop - 1 >= p /\ s[stop - 1] = CR
                THEN stop - 2 ELSE stop - 1
    IN  [i \in 1..(last - p + 1) |-> s[p + i - 1]]

HasSemi(line) == \E i \in 1..Len(line) : line[i] = SEMI
SemiAt(line) == CHOOSE i \in 1..Len(line) : line[i] = SEMI /\ \A j \in 1..(i - 1) : line[j] # SEMI
StationAt(s, p) == [i \in 1..(SemiAt(LineAt(s, p)) - 1) |-> LineAt(s, p)[i]]
TokenAt(s, p) ==
    LET line == LineAt(s, p)
    IN  [i \in 1..(Len(line) - SemiAt(line)) |-> line[SemiAt(line) + i]]

\* A token of the value grammar: an optional '-', one to three digits, '.', a digit.
InGrammar(tok) ==
    LET neg == Len(tok) > 0 /\ tok[1] = MINUS
        first == IF neg THEN 2 ELSE 1
        n == Len(tok)
    IN  /\ n - first + 1 \in 3..5
        /\ tok[n - 1] = DOT
        /\ \A i \in (first..n) \ {n - 1} : tok[i] \in 48..57

\* Its value in tenths.
GrammarValue(tok) ==
    LET neg == tok[1] = MINUS
        first == IF neg THEN 2 ELSE 1
        n == Len(tok)
        whole == {i \in first..(n - 2) : TRUE}
        weight(i) == 10 ^ (n - 1 - i)
        total[S \in SUBSET whole] ==
            IF S = {} THEN 0
            ELSE LET i == CHOOSE x \in S : TRUE
                 IN  (tok[i] - 48) * weight(i) + total[S \ {i}]
        tenths == total[whole] + (tok[n] - 48)
    IN  IF neg THEN 0 - tenths ELSE tenths

RecordStarts(s) == {p \in LineStarts(s) : HasSemi(LineAt(s, p))}
ValidStarts(s) == {p \in RecordStarts(s) : InGrammar(TokenAt(s, p))}
ValueAt(s, p) == GrammarValue(TokenAt(s, p))
ValidNames(s) == {StationAt(s, p) : p \in ValidStarts(s)}

\* The aggregate of the records at the starts P of s, computed directly.
DirectAggregate(s, P) ==
    LET total[S \in SUBSET P] ==
            IF S = {} THEN 0
            ELSE LET p == CHOOSE x \in S : TRUE IN ValueAt(s, p) + total[S \ {p}]
    IN  [min |-> CHOOSE v \in {ValueAt(s, p) : p \in P} : \A p \in P : v <= ValueAt(s, p),
         max |-> CHOOSE v \in {ValueAt(s, p) : p \in P} : \A p \in P : v >= ValueAt(s, p),
         sum |-> total[P],
         count |-> Cardinality(P)]

\* The records of s whose name has the digest k.
StartsOfUuid(s, k) == {p \in ValidStarts(s) : uuidOf[StationAt(s, p)] = k}
\* The records of s whose name is n.
StartsOfName(s, n) == {p \in ValidStarts(s) : StationAt(s, p) = n}

\* table holds, per key, exactly the aggregate of the valid records of s with that key.
AggregatesOf(table, s) ==
    /\ DOMAIN table = {uuidOf[StationAt(s, p)] : p \in ValidStarts(s)}
    /\ \A k \in DOMAIN table : table[k].values = DirectAggregate(s, StartsOfUuid(s, k))

(***************************************************************************)
(* Inputs and digests the model ranges over                                *)
(***************************************************************************)
nA == <<65>>
nB == <<66>>
na == <<97>>
nb == <<98>>
nAb == <<65, 98>>
Names == {nA, nB, na, nb, nAb}

Line(station, temp) == station \o <<SEMI>> \o temp \o <<NL>>
WithoutLastByte(s) == SubSeq(s, 1, Len(s) - 1)

t5_0 == <<53, DOT, 48>>
t1_0 == <<49, DOT, 48>>
t2_0 == <<50, DOT, 48>>
t3_0 == <<51, DOT, 48>>
t0_4 == <<48, DOT, 52>>
tm1_5 == <<MINUS, 49, DOT, 53>>
tm99_9 == <<MINUS, 57, 57, DOT, 57>>
t12 == <<49, 50>>
tx_5 == <<120, DOT, 53>>
NoSemiLine == <<120, NL>>

Inputs ==
    { <<>>,
      WithoutLastByte(Line(nA, t5_0)),
      Line(nA, t1_0) \o Line(nA, t3_0) \o Line(nA, t2_0),
      WithoutLastByte(Line(nA, t1_0) \o Line(nA, t3_0) \o Line(nA, t2_0)),
      Line(nA, t1_0) \o Line(nB, t2_0),
      Line(nB, tm1_5) \o Line(nA, t2_0) \o Line(nB, t0_4),
      Line(nA, t1_0) \o NoSemiLine \o Line(nA, t2_0),
      Line(nA, tm99_9) \o Line(nA, tx_5) \o Line(nA, t0_4),
      Line(nA, t1_0) \o Line(nA, t12),
      nB \o <<SEMI>> \o t2_0 \o <<CR, NL>> \o Line(nB, t1_0) }

\* The stations of the records of s (the lines with a ';').
StationsOf(s) == {StationAt(s, p) : p \in RecordStarts(s)}

\* Digests: the names all apart, or two names of the input sharing one (a 64-bit
\* digest of unbounded byte strings cannot be injective).
InjectiveUuid == (nA :> 1) @@ (nB :> 2) @@ (na :> 3) @@ (nb :> 4) @@ (nAb :> 5)
UuidFns ==
    {h \in [Names -> 1..5] :
        \/ h = InjectiveUuid
        \/ \E x, y \in Names : x # y /\ h = [InjectiveUuid EXCEPT ![y] = InjectiveUuid[x]]}
Collides(h, S) == \E x, y \in S : x # y /\ h[x] = h[y]

(***************************************************************************)
(* Bounds                                                                  *)
(***************************************************************************)
\* BufReader's capacity, BUFFER_SIZE = 2_097_152 in exec, scaled to the inputs.
BUFFER_SIZE == 2
\* exec triggers a merge worker every 128th chunk; scaled to the inputs.
MERGE_PERIOD == 1
\* Failed try_lock attempts counted per aggregator.
MAX_LOCK_FAILURES == 1

(***************************************************************************)
(* Threads and locks                                                       *)
(***************************************************************************)
Free == [kind |-> "free", idx |-> 0]
Main == [kind |-> "main", idx |-> 0]
W(i) == [kind |-> "worker", idx |-> i]
Q(j) == [kind |-> "queue_worker", idx |-> j]

\* The process runs: no process::exit, no panic re-raised by the scope, not returned.
Alive == mainpc \notin {"exit1", "panicked", "done"}

\* No aggregator is followed through its try_lock loop.
NotRetrying == [pc |-> "none"]

saturating_sub(a, b) == IF a >= b THEN a - b ELSE 0
near_eof == saturating_sub(Len(input), BUFFER_SIZE * MERGE_PERIOD)

Init ==
    /\ input \in Inputs
    /\ uuidOf \in {h \in UuidFns : h = InjectiveUuid \/ Collides(h, StationsOf(input))}
    /\ mainpc = "exec"
    /\ total_bytes_read = 0
    /\ iter_count = 0
    /\ hangup = FALSE
    /\ exclusive = TRUE
    /\ queue = <<>>
    /\ queue_lock = Free
    /\ map = EmptyMap
    /\ map_lock = Free
    /\ workers = <<>>
    /\ qworkers = <<>>
    /\ main_taken = <<>>
    /\ folded = <<>>
    /\ stdout = <<>>
    /\ groups = <<>>
    /\ direct = None
    /\ observed = <<>>
    /\ agg_steps = [runs |-> 0, merges |-> 0]
    /\ retry = NotRetrying

(***************************************************************************)
(* try_main and exec: the driving thread                                   *)
(***************************************************************************)
\* exec, lines 87-91: File::open and metadata succeed.
OpenFile ==
    /\ mainpc = "exec"
    /\ mainpc' = "loop"
    /\ UNCHANGED <<input, uuidOf, total_bytes_read, iter_count, hangup, exclusive, queue,
                   queue_lock, map, map_lock, workers, qworkers, main_taken, folded, stdout>>
    /\ UNCHANGED <<aggVars, retryVars>>

\* IoError with the error only reported: the closure returns, the scope ends
\* and try_main goes on to the drain and to print_map.
IoError_reported_only ==
    /\ mainpc \in {"exec", "loop"}
    /\ mainpc' = "join"
    /\ UNCHANGED <<input, uuidOf, total_bytes_read, iter_count, hangup, exclusive, queue,
                   queue_lock, map, map_lock, workers, qworkers, main_taken, folded, stdout>>
    /\ UNCHANGED <<aggVars, retryVars>>

\* exec, lines 87-96 with try_main 44-47: File::open, metadata, fill_buf or
\* read_until fails; exec returns Err and the closure calls process::exit(1).
IoError ==
    /\ mainpc \in {"exec", "loop"}
    /\ mainpc' = "exit1"
    /\ UNCHANGED <<input, uuidOf, total_bytes_read, iter_count, hangup, exclusive, queue,
                   queue_lock, map, map_lock, workers, qworkers, main_taken, folded, stdout>>
    /\ UNCHANGED <<aggVars, retryVars>>

\* chunk_end without read_until: the chunk is the buffer fill_buf returned.
chunk_end_at_buffer(pos, n) == pos + n

\* The bytes of one pass of the loop, lines 94-96: the n bytes fill_buf returns,
\* then read_until's bytes up to and with the next '\n' (or to the end of the file).
chunk_end(pos, n) ==
    LET rest == SubSeq(input, pos + n + 1, Len(input))
        i == FirstIdx(rest, NL)
    IN  IF i = 0 THEN Len(input) ELSE pos + n + i

\* ReadChunk with the test of is_empty after the spawn: the empty chunk at the end
\* of the file gets an aggregator too.
ReadChunk_spawning_empty ==
    /\ mainpc = "loop"
    /\ \E n \in 0..Min2(BUFFER_SIZE, Len(input) - total_bytes_read) :
          /\ n = 0 => total_bytes_read = Len(input)
          /\ LET bytes_buffer == SubSeq(input, total_bytes_read + 1,
                                         chunk_end(total_bytes_read, n))
             IN  /\ total_bytes_read' = total_bytes_read + Len(bytes_buffer)
                 /\ iter_count' = iter_count + 1
                 /\ workers' = Append(workers,
                        [pc |-> "run", bytes_buffer |-> bytes_buffer,
                         local_map |-> EmptyMap, lock_failures |-> 0])
                 /\ folded' = Append(folded, [folds |-> 0, by |-> "none", mid_pass |-> FALSE])
                 /\ hangup' = (bytes_buffer = <<>>)
                 /\ mainpc' = IF bytes_buffer = <<>> THEN "join" ELSE "trigger"
    /\ UNCHANGED <<input, uuidOf, exclusive, queue, queue_lock, map, map_lock, qworkers,
                   main_taken, stdout>>
    /\ UNCHANGED <<aggVars, retryVars>>

\* exec, lines 94-105 and 115-117: one pass of the loop up to the spawn of the
\* chunk's aggregator, or the break, the store to hangup and the return.
ReadChunk ==
    /\ mainpc = "loop"
    /\ \E n \in 0..Min2(BUFFER_SIZE, Len(input) - total_bytes_read) :
          /\ n = 0 => total_bytes_read = Len(input)
          /\ LET bytes_buffer == SubSeq(input, total_bytes_read + 1,
                                         chunk_end(total_bytes_read, n))
             IN  /\ total_bytes_read' = total_bytes_read + Len(bytes_buffer)
                 /\ iter_count' = iter_count + 1
                 /\ IF bytes_buffer = <<>>
                    THEN /\ hangup' = TRUE
                         /\ mainpc' = "join"
                         /\ UNCHANGED <<workers, folded>>
                    ELSE /\ workers' = Append(workers,
                                [pc |-> "run", bytes_buffer |-> bytes_buffer,
                                 local_map |-> EmptyMap, lock_failures |-> 0])
                         /\ folded' = Append(folded, [folds |-> 0, by |-> "none", mid_pass |-> FALSE])
                         /\ mainpc' = "trigger"
                         /\ UNCHANGED hangup
    /\ UNCHANGED <<input, uuidOf, exclusive, queue, queue_lock, map, map_lock, qworkers,
                   main_taken, stdout>>
    /\ UNCHANGED <<aggVars, retryVars>>

\* TriggerMerge without the load of exclusive: every due trigger spawns a worker.
TriggerMerge_ignoring_exclusive ==
    /\ mainpc = "trigger"
    /\ mainpc' = "loop"
    /\ IF iter_count % MERGE_PERIOD = 0 /\ total_bytes_read < near_eof
       THEN /\ exclusive' = FALSE
            /\ qworkers' = Append(qworkers, [pc |-> "start", queue_taken |-> <<>>])
       ELSE UNCHANGED <<exclusive, qworkers>>
    /\ UNCHANGED <<input, uuidOf, total_bytes_read, iter_count, hangup, queue, queue_lock,
                   map, map_lock, workers, main_taken, folded, stdout>>
    /\ UNCHANGED <<aggVars, retryVars>>

\* exec, lines 107-112, with spawn_queue_worker's store to exclusive (173) and spawn.
TriggerMerge ==
    /\ mainpc = "trigger"
    /\ mainpc' = "loop"
    /\ IF iter_count % MERGE_PERIOD = 0 /\ total_bytes_read < near_eof /\ exclusive
       THEN /\ exclusive' = FALSE
            /\ qworkers' = Append(qworkers, [pc |-> "start", queue_taken |-> <<>>])
       ELSE UNCHANGED <<exclusive, qworkers>>
    /\ UNCHANGED <<input, uuidOf, total_bytes_read, iter_count, hangup, queue, queue_lock,
                   map, map_lock, workers, main_taken, folded, stdout>>
    /\ UNCHANGED <<aggVars, retryVars>>

\* ScopeJoin for tasks spawned without a scope: try_main goes on to the drain as
\* soon as exec has returned, whatever the tasks are doing.
ScopeJoin_without_waiting ==
    /\ mainpc = "join"
    /\ mainpc' = IF \E i \in 1..Len(workers) : workers[i].pc = "panicked"
                 THEN "panicked" ELSE "lock_queue"
    /\ UNCHANGED <<input, uuidOf, total_bytes_read, iter_count, hangup, exclusive, queue,
                   queue_lock, map, map_lock, workers, qworkers, main_taken, folded, stdout>>
    /\ UNCHANGED <<aggVars, retryVars>>

\* try_main, lines 43-50: in_place_scope returns once every spawned task has ended,
\* re-raising the panic of a task that panicked; else read_queue_to_map is called.
ScopeJoin ==
    /\ mainpc = "join"
    /\ \A i \in 1..Len(workers) : workers[i].pc \in {"done", "panicked"}
    /\ \A j \in 1..Len(qworkers) : qworkers[j].pc = "done"
    /\ mainpc' = IF \E i \in 1..Len(workers) : workers[i].pc = "panicked"
                 THEN "panicked" ELSE "lock_queue"
    /\ UNCHANGED <<input, uuidOf, total_bytes_read, iter_count, hangup, exclusive, queue,
                   queue_lock, map, map_lock, workers, qworkers, main_taken, folded, stdout>>
    /\ UNCHANGED <<aggVars, retryVars>>

(***************************************************************************)
(* read_queue_to_map, as a merge worker and as try_main run it             *)
(***************************************************************************)
\* Line 193: queue_taken.append(&mut *queue_locked).
taken_append(queue_taken, queue_locked) == queue_taken \o queue_locked

\* The history of the fold: one more fold of each taken table.
folded_after(queue_taken, who) ==
    [i \in 1..Len(folded) |->
        LET n == Cardinality({k \in 1..Len(queue_taken) : queue_taken[k].owner = i})
        IN  IF n = 0 THEN folded[i]
            ELSE [folded[i] EXCEPT !.folds = @ + n, !.by = who]]

\* A merge pass has taken a batch out of the queue and not yet folded it.
BatchInFlight ==
    \/ mainpc \in {"lock_map", "fold"} /\ main_taken # <<>>
    \/ \E j \in 1..Len(qworkers) :
          qworkers[j].pc \in {"lock_map", "fold"} /\ qworkers[j].queue_taken # <<>>

(***************************************************************************)
(* spawn_buffer_worker: the chunk aggregator i                             *)
(***************************************************************************)
\* Lines 122-147: the local table of the chunk, or the panic of unreachable!().
W_Aggregate(i) ==
    /\ Alive
    /\ workers[i].pc = "run"
    /\ LET r == aggregate_chunk(workers[i].bytes_buffer)
       IN  workers' = [workers EXCEPT
                          ![i].pc = IF r.panic THEN "panicked" ELSE "try_lock",
                          ![i].local_map = r.local_map]
    /\ UNCHANGED <<input, uuidOf, mainpc, total_bytes_read, iter_count, hangup, exclusive,
                   queue, queue_lock, map, map_lock, qworkers, main_taken, folded, stdout>>
    /\ UNCHANGED <<aggVars, retryVars>>

\* Line 150-151: try_lock succeeds.
W_TryLockOk(i) ==
    /\ Alive
    /\ workers[i].pc = "try_lock"
    /\ queue_lock = Free
    /\ queue_lock' = W(i)
    /\ workers' = [workers EXCEPT ![i].pc = "locked"]
    /\ UNCHANGED <<input, uuidOf, mainpc, total_bytes_read, iter_count, hangup, exclusive,
                   queue, map, map_lock, qworkers, main_taken, folded, stdout>>
    /\ UNCHANGED <<aggVars, retryVars>>

\* W_Push without the break: the guard is dropped and the loop tries again.
W_Push_without_break(i) ==
    /\ Alive
    /\ workers[i].pc = "locked"
    /\ queue' = Append(queue, [owner |-> i, table |-> workers[i].local_map])
    /\ queue_lock' = Free
    /\ workers' = [workers EXCEPT ![i].pc = "try_lock"]
    /\ folded' = [folded EXCEPT ![i].mid_pass = BatchInFlight]
    /\ UNCHANGED <<input, uuidOf, mainpc, total_bytes_read, iter_count, hangup, exclusive,
                   map, map_lock, qworkers, main_taken, stdout>>
    /\ UNCHANGED <<aggVars, retryVars>>

\* Lines 152-153: the push, the break and the drop of the guard; the task ends.
W_Push(i) ==
    /\ Alive
    /\ workers[i].pc = "locked"
    /\ queue' = Append(queue, [owner |-> i, table |-> workers[i].local_map])
    /\ queue_lock' = Free
    /\ workers' = [workers EXCEPT ![i].pc = "done", ![i].local_map = EmptyMap]
    /\ folded' = [folded EXCEPT ![i].mid_pass = BatchInFlight]
    /\ UNCHANGED <<input, uuidOf, mainpc, total_bytes_read, iter_count, hangup, exclusive,
                   map, map_lock, qworkers, main_taken, stdout>>
    /\ UNCHANGED <<aggVars, retryVars>>

\* Lines 155-166: try_lock would block; count the failure, sleep, try again.
W_TryLockFail(i) ==
    /\ Alive
    /\ workers[i].pc = "try_lock"
    /\ queue_lock # Free
    /\ workers[i].lock_failures < MAX_LOCK_FAILURES
    /\ workers' = [workers EXCEPT ![i].lock_failures = @ + 1]
    /\ UNCHANGED <<input, uuidOf, mainpc, total_bytes_read, iter_count, hangup, exclusive,
                   queue, queue_lock, map, map_lock, qworkers, main_taken, folded, stdout>>
    /\ UNCHANGED <<aggVars, retryVars>>

(***************************************************************************)
(* spawn_queue_worker: the merge worker j                                  *)
(***************************************************************************)
\* Lines 176-178: return at once when exec has finished reading.
Q_Start(j) ==
    /\ Alive
    /\ qworkers[j].pc = "start"
    /\ qworkers' = [qworkers EXCEPT ![j].pc = IF hangup THEN "done" ELSE "lock_queue"]
    /\ UNCHANGED <<input, uuidOf, mainpc, total_bytes_read, iter_count, hangup, exclusive,
                   queue, queue_lock, map, map_lock, workers, main_taken, folded, stdout>>
    /\ UNCHANGED <<aggVars, retryVars>>

\* Line 189.
Q_LockQueue(j) ==
    /\ Alive
    /\ qworkers[j].pc = "lock_queue"
    /\ queue_lock = Free
    /\ queue_lock' = Q(j)
    /\ qworkers' = [qworkers EXCEPT ![j].pc = "take"]
    /\ UNCHANGED <<input, uuidOf, mainpc, total_bytes_read, iter_count, hangup, exclusive,
                   queue, map, map_lock, workers, main_taken, folded, stdout>>
    /\ UNCHANGED <<aggVars, retryVars>>

\* Q_Take without the drop of the queue's guard: it lives to the end of the pass.
Q_Take_keeping_guard(j) ==
    /\ Alive
    /\ qworkers[j].pc = "take"
    /\ qworkers' = [qworkers EXCEPT ![j].pc = "lock_map",
                                    ![j].queue_taken = taken_append(@, queue)]
    /\ queue' = <<>>
    /\ UNCHANGED <<input, uuidOf, mainpc, total_bytes_read, iter_count, hangup, exclusive,
                   queue_lock, map, map_lock, workers, main_taken, folded, stdout>>
    /\ UNCHANGED <<aggVars, retryVars>>

\* Lines 193-194.
Q_Take(j) ==
    /\ Alive
    /\ qworkers[j].pc = "take"
    /\ qworkers' = [qworkers EXCEPT ![j].pc = "lock_map",
                                    ![j].queue_taken = taken_append(@, queue)]
    /\ queue' = <<>>
    /\ queue_lock' = Free
    /\ UNCHANGED <<input, uuidOf, mainpc, total_bytes_read, iter_count, hangup, exclusive,
                   map, map_lock, workers, main_taken, folded, stdout>>
    /\ UNCHANGED <<aggVars, retryVars>>

\* Line 196.
Q_LockMap(j) ==
    /\ Alive
    /\ qworkers[j].pc = "lock_map"
    /\ map_lock = Free
    /\ map_lock' = Q(j)
    /\ qworkers' = [qworkers EXCEPT ![j].pc = "fold"]
    /\ UNCHANGED <<input, uuidOf, mainpc, total_bytes_read, iter_count, hangup, exclusive,
                   queue, queue_lock, map, workers, main_taken, folded, stdout>>
    /\ UNCHANGED <<aggVars, retryVars>>

\* Lines 200-211: the fold, and the drop of the map's guard at the return.
Q_Fold(j) ==
    /\ Alive
    /\ qworkers[j].pc = "fold"
    /\ map' = fold_taken(map, qworkers[j].queue_taken)
    /\ folded' = folded_after(qworkers[j].queue_taken, "queue_worker")
    /\ map_lock' = Free
    /\ qworkers' = [qworkers EXCEPT ![j].pc = "store_exclusive", ![j].queue_taken = <<>>]
    /\ UNCHANGED <<input, uuidOf, mainpc, total_bytes_read, iter_count, hangup, exclusive,
                   queue, queue_lock, workers, main_taken, stdout>>
    /\ UNCHANGED <<aggVars, retryVars>>

\* Line 182.
Q_StoreExclusive(j) ==
    /\ Alive
    /\ qworkers[j].pc = "store_exclusive"
    /\ exclusive' = TRUE
    /\ qworkers' = [qworkers EXCEPT ![j].pc = "done"]
    /\ UNCHANGED <<input, uuidOf, mainpc, total_bytes_read, iter_count, hangup, queue,
                   queue_lock, map, map_lock, workers, main_taken, folded, stdout>>
    /\ UNCHANGED <<aggVars, retryVars>>

(***************************************************************************)
(* try_main, line 50: the final drain, then print_map                      *)
(***************************************************************************)
M_LockQueue ==
    /\ mainpc = "lock_queue"
    /\ queue_lock = Free
    /\ queue_lock' = Main
    /\ mainpc' = "take"
    /\ UNCHANGED <<input, uuidOf, total_bytes_read, iter_count, hangup, exclusive, queue,
                   map, map_lock, workers, qworkers, main_taken, folded, stdout>>
    /\ UNCHANGED <<aggVars, retryVars>>

M_Take ==
    /\ mainpc = "take"
    /\ main_taken' = taken_append(main_taken, queue)
    /\ queue' = <<>>
    /\ queue_lock' = Free
    /\ mainpc' = "lock_map"
    /\ UNCHANGED <<input, uuidOf, total_bytes_read, iter_count, hangup, exclusive, map,
                   map_lock, workers, qworkers, folded, stdout>>
    /\ UNCHANGED <<aggVars, retryVars>>

M_LockMap ==
    /\ mainpc = "lock_map"
    /\ map_lock = Free
    /\ map_lock' = Main
    /\ mainpc' = "fold"
    /\ UNCHANGED <<input, uuidOf, total_bytes_read, iter_count, hangup, exclusive, queue,
                   queue_lock, map, workers, qworkers, main_taken, folded, stdout>>
    /\ UNCHANGED <<aggVars, retryVars>>

M_Fold ==
    /\ mainpc = "fold"
    /\ map' = fold_taken(map, main_taken)
    /\ folded' = folded_after(main_taken, "main")
    /\ map_lock' = Free
    /\ main_taken' = <<>>
    /\ mainpc' = "print_map"
    /\ UNCHANGED <<input, uuidOf, total_bytes_read, iter_count, hangup, exclusive, queue,
                   queue_lock, workers, qworkers, stdout>>
    /\ UNCHANGED <<aggVars, retryVars>>

\* print_map, lines 213-242: lock the map, sort, write and flush; try_main returns.
PrintMap ==
    /\ mainpc = "print_map"
    /\ map_lock = Free
    /\ stdout' = stdout \o rendered(map)
    /\ mainpc' = "done"
    /\ UNCHANGED <<input, uuidOf, total_bytes_read, iter_count, hangup, exclusive, queue,
                   queue_lock, map, map_lock, workers, qworkers, main_taken, folded>>
    /\ UNCHANGED <<aggVars, retryVars>>

\* The tasks of the scope: any spawned task may take its next step.
Aggregate == \E i \in 1..Len(workers) : W_Aggregate(i)
TryLockOk == \E i \in 1..Len(workers) : W_TryLockOk(i)
Push == \E i \in 1..Len(workers) : W_Push(i)
TryLockFail == \E i \in 1..Len(workers) : W_TryLockFail(i)
MergeStart == \E j \in 1..Len(qworkers) : Q_Start(j)
MergeLockQueue == \E j \in 1..Len(qworkers) : Q_LockQueue(j)
MergeTake == \E j \in 1..Len(qworkers) : Q_Take(j)
MergeLockMap == \E j \in 1..Len(qworkers) : Q_LockMap(j)
MergeFold == \E j \in 1..Len(qworkers) : Q_Fold(j)
MergeStoreExclusive == \E j \in 1..Len(qworkers) : Q_StoreExclusive(j)

Next ==
    \/ OpenFile
    \/ IoError
    \/ ReadChunk
    \/ TriggerMerge
    \/ ScopeJoin
    \/ Aggregate
    \/ TryLockOk
    \/ Push
    \/ TryLockFail
    \/ MergeStart
    \/ MergeLockQueue
    \/ MergeTake
    \/ MergeLockMap
    \/ MergeFold
    \/ MergeStoreExclusive
    \/ M_LockQueue
    \/ M_Take
    \/ M_LockMap
    \/ M_Fold
    \/ PrintMap

Spec == Init /\ [][Next]_vars

Chunk(i) == workers[i].bytes_buffer
AtPrint == mainpc \in {"print_map", "done"}

(***************************************************************************)
(* Claims                                                                  *)
(***************************************************************************)

\* C1: when print_map reads the shared table, every local table that was built
\* has been folded into it exactly once (none lost, none folded twice), so each
\* entry of the table holds the min, max, sum and count computed directly over
\* all valid records of the whole input that belong to the entry.  An entry is
\* an entry of the table as the code keys it, by Record::uuid.
C1_FoldedOnceAndExact ==
    AtPrint =>
        /\ \A i \in 1..Len(workers) : folded[i].folds = 1
        /\ queue = <<>> /\ main_taken = <<>>
        /\ \A j \in 1..Len(qworkers) : qworkers[j].queue_taken = <<>>
        /\ AggregatesOf(map, input)

\* C1's case: the table is printed after a merge worker folded an earlier batch,
\* a table was pushed while that batch was in flight, and the final drain folded
\* what was left.
C1_Witness ==
    /\ mainpc = "done"
    /\ \E i \in 1..Len(folded) : folded[i].by = "queue_worker"
    /\ \E i \in 1..Len(folded) : folded[i].mid_pass /\ folded[i].by = "main"

\* The table and the output of the schedule that runs the chunks one after the
\* other, in the order they were read.
RECURSIVE InOrderTable(_)
InOrderTable(n) ==
    IF n = 0 THEN EmptyMap
    ELSE fold_table(InOrderTable(n - 1), aggregate_chunk(Chunk(n)).local_map)

\* C2: for every scheduling of the worker tasks the final output is the same: the
\* rendered set of entries and every entry's name, min, mean and max are those of
\* the run that takes the chunks in order.
C2_SameOutputForEverySchedule ==
    mainpc = "done" => stdout = rendered(InOrderTable(Len(workers)))

\* Every chunk but the final one ends at a record separator, and the chunks are
\* the input so far, cut: no record is split.
RECURSIVE ChunksJoined(_)
ChunksJoined(n) == IF n = 0 THEN <<>> ELSE ChunksJoined(n - 1) \o Chunk(n)
NoRecordSplit ==
    /\ ChunksJoined(Len(workers)) = SubSeq(input, 1, total_bytes_read)
    /\ \A i \in 1..Len(workers) :
          (i < Len(workers) \/ total_bytes_read < Len(input))
              => Chunk(i)[Len(Chunk(i))] = NL

\* C3: whatever amounts the buffered reads return, no record is split and the
\* final sorted result is the one of the input taken as a single chunk.
C3_RechunkingSameResult ==
    /\ NoRecordSplit
    /\ mainpc = "done" => stdout = rendered(aggregate_chunk(input).local_map)

\* C4: one entry per distinct name: an entry of a local table or of the shared
\* table never holds records of two names, and every name with a valid record
\* has an entry of its own in the output.
C4_OneEntryPerName ==
    /\ \A i \in 1..Len(workers) :
          workers[i].pc \in {"try_lock", "locked"} =>
              \A k \in DOMAIN workers[i].local_map :
                  workers[i].local_map[k].values.count
                      = Cardinality(StartsOfName(Chunk(i),
                                                 workers[i].local_map[k].station_name))
    /\ AtPrint =>
          /\ {map[k].station_name : k \in DOMAIN map} = ValidNames(input)
          /\ \A k \in DOMAIN map :
                map[k].values = DirectAggregate(input, StartsOfName(input, map[k].station_name))

\* C5: a record whose value token cannot be parsed as a number is excluded and is
\* not fatal: no aggregator panics, each aggregates the other records of its
\* chunk, and the run is not aborted.
C5_UnparseableTokenNotFatal ==
    /\ mainpc # "panicked"
    /\ \A i \in 1..Len(workers) :
          /\ workers[i].pc # "panicked"
          /\ workers[i].pc \in {"try_lock", "locked"}
                => AggregatesOf(workers[i].local_map, Chunk(i))

\* A chunk with a line without ';' whose other lines are valid records.
HasNoSemiLine(s) == \E p \in LineStarts(s) : ~HasSemi(LineAt(s, p))
OtherwiseValid(s) == RecordStarts(s) = ValidStarts(s)

\* C6: a chunk with a line without ';' and otherwise valid lines aggregates exactly
\* the valid lines, the line without ';' contributes to no entry, and the run
\* does not fail.
C6_NoSemiLineSkipped ==
    /\ \A i \in 1..Len(workers) :
          (HasNoSemiLine(Chunk(i)) /\ OtherwiseValid(Chunk(i))) =>
              /\ workers[i].pc # "panicked"
              /\ workers[i].pc \in {"try_lock", "locked"}
                    => AggregatesOf(workers[i].local_map, Chunk(i))
    /\ (HasNoSemiLine(input) /\ OtherwiseValid(input)) =>
          /\ mainpc # "panicked"
          /\ AtPrint => AggregatesOf(map, input)

\* C6's case: a chunk holding a line without ';' and a valid record was aggregated
\* and the run printed its result.
C6_Witness ==
    /\ mainpc = "done"
    /\ \E i \in 1..Len(workers) :
          /\ HasNoSemiLine(Chunk(i))
          /\ ValidStarts(Chunk(i)) # {}
    /\ stdout # <<LBRACE, RBRACE, NL>>

\* A number of tenths as the format writes it: -?d+.d
TenthsText(neg, t) ==
    LET whole == t \div 10
        digit(d) == <<48 + d>>
    IN  (IF neg THEN <<MINUS>> ELSE <<>>)
        \o (IF whole >= 100 THEN digit(whole \div 100) ELSE <<>>)
        \o (IF whole >= 10 THEN digit((whole \div 10) % 10) ELSE <<>>)
        \o digit(whole % 10) \o <<DOT>> \o digit(t % 10)

\* C9: when all valid records carry one name, the output is the one entry of that
\* name: min the smallest value, max the largest, mean sum / count on the scale of
\* ten to the nearest tenth; so "A;5.0" prints {A=5.0/5.0/5.0} and "A;1.0",
\* "A;3.0", "A;2.0" print {A=1.0/2.0/3.0}, with or without a last separator.
C9_SingleNameOutput ==
    (mainpc = "done" /\ Cardinality(ValidNames(input)) = 1) =>
        LET name == CHOOSE n \in ValidNames(input) : TRUE
            d == DirectAggregate(input, ValidStarts(input))
            low == Abs(d.sum) \div d.count
        IN  /\ \E t \in {low, low + 1}, neg \in BOOLEAN :
                  /\ 2 * Abs(t * d.count - Abs(d.sum)) <= d.count
                  /\ t # 0 => neg = (d.sum < 0)
                  /\ stdout = <<LBRACE>> \o name \o <<EQUALS>>
                              \o TenthsText(d.min < 0, Abs(d.min)) \o <<SLASH>>
                              \o TenthsText(neg, t) \o <<SLASH>>
                              \o TenthsText(d.max < 0, Abs(d.max)) \o <<RBRACE, NL>>
            /\ input = WithoutLastByte(Line(nA, t5_0))
                  => stdout = <<123, 65, 61, 53, 46, 48, 47, 53, 46, 48, 47, 53, 46, 48, 125, 10>>
            /\ input \in {Line(nA, t1_0) \o Line(nA, t3_0) \o Line(nA, t2_0),
                          WithoutLastByte(Line(nA, t1_0) \o Line(nA, t3_0) \o Line(nA, t2_0))}
                  => stdout = <<123, 65, 61, 49, 46, 48, 47, 50, 46, 48, 47, 51, 46, 48, 125, 10>>

\* C9's case: three records of one name, read as more than one chunk from an
\* input without a last separator, were printed.
C9_Witness ==
    /\ mainpc = "done"
    /\ input = WithoutLastByte(Line(nA, t1_0) \o Line(nA, t3_0) \o Line(nA, t2_0))
    /\ Len(workers) > 1
    /\ stdout # <<>>

(***************************************************************************)
(* SpecPrint: print_map on the tables the run can hand it                  *)
(***************************************************************************)
PrintRecords == {Line(n, t) : n \in Names, t \in {t1_0, tm1_5}}
FourNames == Line(nb, t1_0) \o Line(na, t2_0) \o Line(nB, t3_0) \o Line(nA, t0_4)
PrintInputs ==
    {<<>>, FourNames}
        \cup PrintRecords
        \cup {r1 \o r2 : r1 \in PrintRecords, r2 \in PrintRecords}

\* The state try_main is in when it calls print_map: the input read, every table
\* folded into the shared table, the scope's tasks gone.
InitPrint ==
    /\ input \in PrintInputs
    /\ uuidOf \in {h \in UuidFns : h = InjectiveUuid \/ Collides(h, StationsOf(input))}
    /\ mainpc = "print_map"
    /\ total_bytes_read = Len(input)
    /\ iter_count = 1
    /\ hangup = TRUE
    /\ exclusive = TRUE
    /\ queue = <<>>
    /\ queue_lock = Free
    /\ map = aggregate_chunk(input).local_map
    /\ map_lock = Free
    /\ workers = <<>>
    /\ qworkers = <<>>
    /\ main_taken = <<>>
    /\ folded = <<>>
    /\ stdout = <<>>
    /\ groups = <<>>
    /\ direct = None
    /\ observed = <<>>
    /\ agg_steps = [runs |-> 0, merges |-> 0]
    /\ retry = NotRetrying

NextPrint == PrintMap

SpecPrint == InitPrint /\ [][NextPrint]_vars

\* Byte-lexicographic order: the first byte that differs decides, else the length.
LexLess(a, b) ==
    LET differ == {i \in 1..Len(a) : i <= Len(b) /\ a[i] # b[i]}
    IN  IF differ = {} THEN Len(a) < Len(b)
        ELSE LET i == CHOOSE x \in differ : \A y \in differ : x <= y
             IN  a[i] < b[i]

\* The entries e[1..n], each but the last followed by ", ".
RECURSIVE JoinedEntries(_, _)
JoinedEntries(e, i) ==
    IF i > Len(e) THEN <<>>
    ELSE Record_fmt(e[i]) \o (IF i < Len(e) THEN <<COMMA, SPACE>> ELSE <<>>)
         \o JoinedEntries(e, i + 1)

\* C10: print_map renders every entry of the shared table exactly once, in
\* ascending byte-lexicographic order of name (A < B < a < b), joined by ", " with
\* no trailing separator, inside braces, ended by one newline.
C10_SortedOutput ==
    mainpc = "done" =>
        /\ \E order \in [1..Cardinality(DOMAIN map) -> DOMAIN map] :
              /\ \A i, j \in DOMAIN order : i # j => order[i] # order[j]
              /\ \A i, j \in DOMAIN order :
                    i < j => LexLess(map[order[i]].station_name, map[order[j]].station_name)
              /\ stdout = <<LBRACE>>
                          \o JoinedEntries([i \in DOMAIN order |-> map[order[i]]], 1)
                          \o <<RBRACE, NL>>
        /\ (input = FourNames /\ uuidOf = InjectiveUuid) =>
              \E i1, i2, i3, i4 \in 1..Len(stdout) :
                  /\ i1 < i2 /\ i2 < i3 /\ i3 < i4
                  /\ stdout[i1] = 65 /\ stdout[i2] = 66 /\ stdout[i3] = 97 /\ stdout[i4] = 98

\* C10's case: the four names b, a, B, A, one record each, were printed.
C10_Witness ==
    /\ mainpc = "done"
    /\ input = FourNames
    /\ Cardinality(DOMAIN map) = 4
    /\ stdout # <<>>

(***************************************************************************)
(* SpecAgg: StationValues::new / update / merge on the records of one      *)
(* name, split into groups (the entries of the name in the local tables)   *)
(* that are merged into each other (read_queue_to_map).  Records arrive in *)
(* runs of equal values, so that sums of the size of an i32 are reached.   *)
(***************************************************************************)
Groups == 1..3
AGG_VALUES == {-9999, -15, 23, 9999}
\* The length of a long run of records; BIG_RUN * 9999 is below 2^31.
BIG_RUN == 214748
\* The lengths of the runs: short ones, a long one, and 2^31 - 1 records.
RunLengths == {1, 2, BIG_RUN, I32_MAX}
\* The runs of records of one behaviour.
MAX_RUNS == 3

\* n * v in i32, wrapping, for 0 <= n < 2^31 and |v| < 2^14: n is taken as
\* nh * 2^16 + nl, and every intermediate value stays inside i32.
wrapping_times(v, n) ==
    LET nl == n % (2 ^ 16)
        nh == n \div (2 ^ 16)
        w == (v * nh) % (2 ^ 16)
        hi == IF w >= 2 ^ 15 THEN (w - 2 ^ 16) * (2 ^ 16) ELSE w * (2 ^ 16)
    IN  wrapping_add(v * nl, hi)

\* n times update(new_value): for a long run the i32 sum has wrapped to
\* sum + n * new_value and the u32 count to count + n.
RECURSIVE update_times(_, _, _)
update_times(self, new_value, n) ==
    IF n = 0 THEN self
    ELSE IF n <= 2 THEN update_times(update(self, new_value), new_value, n - 1)
    ELSE [min |-> Min2(self.min, new_value),
          max |-> Max2(self.max, new_value),
          sum |-> wrapping_add(self.sum, wrapping_times(new_value, n)),
          count |-> u32_wrapping_add(self.count, n)]

\* spawn_buffer_worker, lines 137-146, for n records of one value: update the
\* entry, or insert Record::new for the first and update for the rest.
fold_run(entry, new_value, n) ==
    IF entry.some THEN Some(update_times(entry.val, new_value, n))
    ELSE Some(update_times(StationValues_new(new_value), new_value, n - 1))

\* read_queue_to_map, lines 203-209: merge v into the entry, or insert v.
fold_entry(entry, v) ==
    IF entry.some THEN Some(merge(entry.val, v)) ELSE Some(v)

\* Exact integers beyond 32 bits: q * 10^9 + r with 0 <= r < 10^9.
BigOf(a) == [q |-> a \div (10 ^ 9), r |-> a % (10 ^ 9)]
BigSum(x, y) == [q |-> x.q + y.q + ((x.r + y.r) \div (10 ^ 9)), r |-> (x.r + y.r) % (10 ^ 9)]

\* 2^16 times the exact integer x.
BigDouble(x) == BigSum(x, x)
BigTimes16(x) == BigDouble(BigDouble(BigDouble(BigDouble(x))))
BigTimes65536(x) == BigTimes16(BigTimes16(BigTimes16(BigTimes16(x))))

\* The exact product n * v, for 0 <= n < 2^31 and |v| < 2^14.
BigTimes(v, n) ==
    BigSum(BigOf(v * (n % (2 ^ 16))), BigTimes65536(BigOf(v * (n \div (2 ^ 16)))))

\* The exact value of a u32 held as its 32-bit pattern.
BigOfU32(c) ==
    IF c >= 0 THEN BigOf(c)
    ELSE BigSum(BigOf(c + I32_MAX + 1), BigSum(BigOf(I32_MAX), BigOf(1)))

NothingObserved == [values |-> {}, count |-> BigOf(0), sum |-> BigOf(0)]
ObservedRun(o, v, n) ==
    [values |-> o.values \cup {v}, count |-> BigSum(o.count, BigOf(n)),
     sum |-> BigSum(o.sum, BigTimes(v, n))]
ObservedBoth(o1, o2) ==
    [values |-> o1.values \cup o2.values, count |-> BigSum(o1.count, o2.count),
     sum |-> BigSum(o1.sum, o2.sum)]

InitAgg ==
    /\ input = <<>>
    /\ uuidOf = InjectiveUuid
    /\ mainpc = "exec"
    /\ total_bytes_read = 0
    /\ iter_count = 0
    /\ hangup = FALSE
    /\ exclusive = TRUE
    /\ queue = <<>>
    /\ queue_lock = Free
    /\ map = EmptyMap
    /\ map_lock = Free
    /\ workers = <<>>
    /\ qworkers = <<>>
    /\ main_taken = <<>>
    /\ folded = <<>>
    /\ stdout = <<>>
    /\ groups = [g \in Groups |-> None]
    /\ direct = None
    /\ observed = [g \in Groups |-> NothingObserved]
    /\ agg_steps = [runs |-> 0, merges |-> 0]
    /\ retry = NotRetrying

\* n records of the value v arrive in group g.
AggRecords ==
    /\ agg_steps.runs < MAX_RUNS
    /\ \E g \in Groups, v \in AGG_VALUES, n \in RunLengths :
          /\ groups' = [groups EXCEPT ![g] = fold_run(@, v, n)]
          /\ direct' = fold_run(direct, v, n)
          /\ observed' = [observed EXCEPT ![g] = ObservedRun(@, v, n)]
    /\ agg_steps' = [agg_steps EXCEPT !.runs = @ + 1]
    /\ UNCHANGED <<pipeVars, retryVars>>

\* The aggregate of group h is folded into group g and consumed.
AggMerge ==
    /\ \E g, h \in Groups :
          /\ g # h
          /\ groups[h].some
          /\ groups' = [groups EXCEPT ![g] = fold_entry(@, groups[h].val), ![h] = None]
          /\ observed' = [observed EXCEPT ![g] = ObservedBoth(@, observed[h]),
                                          ![h] = NothingObserved]
          /\ agg_steps' = [agg_steps EXCEPT !.merges = @ + (IF groups[g].some THEN 1 ELSE 0)]
    /\ UNCHANGED <<pipeVars, direct, retryVars>>

NextAgg == AggRecords \/ AggMerge

SpecAgg == InitAgg /\ [][NextAgg]_vars

\* C7: after any sequence of update and merge, sum is the exact sum of all the
\* values observed for the name and count their exact number, however many
\* records there are: the sum never wraps.
C7_SumAndCountExact ==
    \A g \in Groups :
        groups[g].some =>
            /\ BigOf(groups[g].val.sum) = observed[g].sum
            /\ BigOfU32(groups[g].val.count) = observed[g].count

\* C8: for any partition of the records of one name into groups, the group
\* aggregates built with new / update and merged in any order give the
\* aggregate, field by field, of folding all the records directly.
C8_MergeEqualsDirect ==
    \A g \in Groups :
        (groups[g].some /\ \A h \in Groups \ {g} : ~groups[h].some)
            => groups[g] = direct

\* C8's case: three groups of records were built and merged into one.
C8_Witness ==
    /\ agg_steps.merges >= 2
    /\ agg_steps.runs = MAX_RUNS
    /\ \E g \in Groups :
          /\ groups[g].some /\ groups[g].val.count >= 3
          /\ groups[g].val.min < groups[g].val.max
          /\ \A h \in Groups \ {g} : ~groups[h].some

(***************************************************************************)
(* The empty file                                                          *)
(***************************************************************************)
\* C11: on empty input the reader loop stops at its first pass, whose chunk has no
\* bytes, without spawning an aggregator or a merge worker; the final drain leaves
\* the shared table empty, and the output is exactly "{}" and a line feed.
C11_EmptyInputPrintsBraces ==
    input = <<>> =>
        /\ workers = <<>> /\ qworkers = <<>> /\ queue = <<>>
        /\ map = EmptyMap
        /\ total_bytes_read = 0
        /\ iter_count <= 1
        /\ iter_count = 1 => hangup /\ mainpc # "loop"
        /\ stdout = IF mainpc = "done" THEN <<LBRACE, RBRACE, NL>> ELSE <<>>

\* C11's case: the run on the empty file has ended after the drain and print_map.
C11_Witness ==
    input = <<>> /\ mainpc = "done" /\ hangup /\ iter_count = 1

(***************************************************************************)
(* Failure of the input                                                    *)
(***************************************************************************)
\* Once process::exit(1) has been called nothing runs any more.
ExitIsFinal == [][mainpc # "exit1"]_vars

\* Output exists only in a run whose reader reached the end of the file.
OutputOnlyAfterFullRead ==
    /\ mainpc = "exit1" => stdout = <<>> /\ ~hangup
    /\ stdout # <<>> => hangup /\ total_bytes_read = Len(input) /\ mainpc = "done"
    /\ AtPrint => hangup /\ total_bytes_read = Len(input)

\* C12: when opening or reading the input fails at any point of the reader loop the
\* run ends with exit status 1 and nothing is ever written to standard output:
\* print_map is never reached, also when earlier chunks were aggregated or merged.
C12_IoErrorAbortsWithoutOutput == []OutputOnlyAfterFullRead /\ ExitIsFinal

\* C12's case: a read failed after an earlier chunk had been aggregated, pushed and
\* folded into the shared table by a merge worker.
C12_Witness ==
    /\ mainpc = "exit1"
    /\ \E i \in 1..Len(workers) : folded[i].folds = 1 /\ folded[i].by = "queue_worker"
    /\ map # EmptyMap

(***************************************************************************)
(* Publication of the local tables                                         *)
(***************************************************************************)
\* The tables of aggregator i in a sequence of queue entries.
CountOwned(entries, i) == Cardinality({k \in 1..Len(entries) : entries[k].owner = i})

RECURSIVE TakenByMergeWorkers(_, _)
TakenByMergeWorkers(j, i) ==
    IF j = 0 THEN 0
    ELSE CountOwned(qworkers[j].queue_taken, i) + TakenByMergeWorkers(j - 1, i)

\* How many times the table of aggregator i has been published: its copies in the
\* queue, in the batches taken by merge passes, and folded into the shared table.
Published(i) ==
    CountOwned(queue, i) + TakenByMergeWorkers(Len(qworkers), i)
        + CountOwned(main_taken, i) + folded[i].folds

PublishedOnceWhenDone ==
    \A i \in 1..Len(workers) :
        Published(i) = IF workers[i].pc = "done" THEN 1 ELSE 0

\* A step that lengthens the queue is the push of an aggregator that holds the
\* queue lock, and that aggregator ends with it and releases the lock.
PushOnlyUnderLock ==
    [][Len(queue') > Len(queue) =>
          \E i \in 1..Len(workers) :
              /\ queue_lock = W(i) /\ workers[i].pc = "locked"
              /\ queue' = Append(queue, [owner |-> i, table |-> workers[i].local_map])
              /\ workers'[i].pc = "done" /\ queue_lock' = Free]_vars

\* A failed try_lock changes nothing but the aggregator's count of failures.
FailedTryLockPushesNothing ==
    [][\A i \in 1..Len(workers) :
          workers'[i].lock_failures # workers[i].lock_failures =>
              /\ queue_lock # Free /\ queue_lock # W(i)
              /\ queue' = queue /\ queue_lock' = queue_lock
              /\ workers'[i].pc = "try_lock"]_vars

\* An aggregator that has ended stays ended and never holds the queue lock again.
DoneStaysDone ==
    [][\A i \in 1..Len(workers) :
          workers[i].pc = "done" => workers'[i] = workers[i] /\ queue_lock' # W(i)]_vars

\* C13: each chunk aggregator publishes its local table to the queue exactly once:
\* it pushes only while holding the queue lock, a failed try_lock pushes nothing,
\* and after the one successful push the task has ended and leaves the queue alone.
C13_PublishedExactlyOnce ==
    /\ []PublishedOnceWhenDone
    /\ PushOnlyUnderLock
    /\ FailedTryLockPushesNothing
    /\ DoneStaysDone

\* C13's case: an aggregator whose try_lock failed has later pushed and ended, while
\* another aggregator is still to publish.
C13_Witness ==
    \E i, k \in 1..Len(workers) :
        /\ workers[i].pc = "done" /\ workers[i].lock_failures >= 1 /\ Published(i) = 1
        /\ workers[k].pc = "try_lock" /\ Published(k) = 0

(***************************************************************************)
(* Merge passes                                                            *)
(***************************************************************************)
\* The merge worker j is inside read_queue_to_map.
InPass(j) == qworkers[j].pc \in {"lock_queue", "take", "lock_map", "fold"}
\* The merge worker j has been spawned and has not yet ended.
InFlight(j) == qworkers[j].pc # "done"
\* try_main is inside its call of read_queue_to_map, the final drain.
MainInPass == mainpc \in {"lock_queue", "take", "lock_map", "fold"}

PassesInProgress ==
    Cardinality({j \in 1..Len(qworkers) : InPass(j)}) + (IF MainInPass THEN 1 ELSE 0)

AtMostOnePass ==
    /\ PassesInProgress <= 1
    /\ Cardinality({j \in 1..Len(qworkers) : InFlight(j)}) <= 1
    /\ exclusive => \A j \in 1..Len(qworkers) : ~InFlight(j)
    /\ MainInPass => \A j \in 1..Len(qworkers) : ~InFlight(j)

\* A merge worker is spawned only by a trigger that found exclusive set, and the
\* trigger that finds it cleared spawns nothing.
SpawnOnlyWhenExclusive ==
    [][/\ Len(qworkers') > Len(qworkers) =>
              exclusive /\ ~exclusive' /\ mainpc = "trigger"
                 /\ Len(qworkers') = Len(qworkers) + 1
       /\ mainpc = "trigger" /\ mainpc' = "loop" /\ ~exclusive =>
              Len(qworkers') = Len(qworkers) /\ ~exclusive']_vars

\* C14: at most one merge pass (one execution of read_queue_to_map) is in progress
\* at any time: the reader loop spawns a merge worker only when exclusive shows
\* none in flight and skips the trigger otherwise, and the final drain overlaps none.
C14_OneMergePassAtATime == []AtMostOnePass /\ SpawnOnlyWhenExclusive

\* C14's case: a trigger came due while the first merge worker was inside its pass,
\* and the reader went on without spawning a second one.
C14_Witness ==
    /\ Len(qworkers) = 1 /\ InPass(1) /\ ~exclusive
    /\ iter_count = 2 /\ iter_count % MERGE_PERIOD = 0
    /\ total_bytes_read < near_eof
    /\ mainpc = "loop"

(***************************************************************************)
(* The two locks                                                           *)
(***************************************************************************)
\* The tasks: try_main, the aggregators and the merge workers.
Tasks ==
    {Main} \cup {W(i) : i \in 1..Len(workers)} \cup {Q(j) : j \in 1..Len(qworkers)}

HoldsQueue(t) == queue_lock = t
HoldsMap(t) == map_lock = t

\* The task is blocked in Mutex::lock on the queue, or on the map.
WaitsForQueue(t) ==
    \/ t = Main /\ mainpc = "lock_queue" /\ queue_lock # Free
    \/ \E j \in 1..Len(qworkers) :
          t = Q(j) /\ qworkers[j].pc = "lock_queue" /\ queue_lock # Free
WaitsForMap(t) ==
    \/ t = Main /\ mainpc \in {"lock_map", "print_map"} /\ map_lock # Free
    \/ \E j \in 1..Len(qworkers) :
          t = Q(j) /\ qworkers[j].pc = "lock_map" /\ map_lock # Free

\* t waits for a lock that u holds.
WaitsOn(t, u) ==
    \/ WaitsForQueue(t) /\ HoldsQueue(u)
    \/ WaitsForMap(t) /\ HoldsMap(u)

\* C15: in every reachable state no task holds the queue lock and the map lock at
\* the same time: a merge pass drops the queue lock before it locks the map, and an
\* aggregator only ever takes the queue lock; so no tasks wait on each other's
\* locks in a cycle (a task that waits holds no lock).
C15_NeverBothLocks ==
    /\ \A t \in Tasks : ~(HoldsQueue(t) /\ HoldsMap(t))
    /\ queue_lock \in Tasks \cup {Free} /\ map_lock \in Tasks \cup {Free}
    /\ \A i \in 1..Len(workers) : ~HoldsMap(W(i))
    /\ \A t \in Tasks :
          WaitsForQueue(t) \/ WaitsForMap(t) => ~HoldsQueue(t) /\ ~HoldsMap(t)
    /\ \A t, u \in Tasks : ~(WaitsOn(t, u) /\ WaitsOn(u, t))

\* C15's case: both locks are held, by different tasks: a merge worker folds under
\* the map lock while an aggregator pushes under the queue lock.
C15_Witness ==
    \E i \in 1..Len(workers), j \in 1..Len(qworkers) :
        /\ HoldsQueue(W(i)) /\ workers[i].pc = "locked"
        /\ HoldsMap(Q(j)) /\ qworkers[j].pc = "fold"

(***************************************************************************)
(* The final drain                                                         *)
(***************************************************************************)
\* The reader is exhausted and every spawned task has ended.
AllTasksEnded ==
    /\ hangup /\ total_bytes_read = Len(input)
    /\ \A i \in 1..Len(workers) : workers[i].pc = "done"
    /\ \A j \in 1..Len(qworkers) : qworkers[j].pc = "done"

DrainAfterAllTasks ==
    /\ MainInPass \/ AtPrint => AllTasksEnded
    /\ AtPrint =>
          /\ queue = <<>> /\ main_taken = <<>>
          /\ queue_lock = Free /\ map_lock = Free
          /\ \A i \in 1..Len(workers) : folded[i].folds = 1

\* From the end of the drain on, the shared table and the queue do not change.
TableFrozenAfterDrain ==
    [][AtPrint => map' = map /\ queue' = queue]_vars

\* C16: the final drain starts only after the reader is exhausted and every spawned
\* aggregator and merge worker has ended; after it the queue is empty, and the
\* shared table is not mutated from then until print_map has read it.
C16_DrainAfterTasksThenFrozen == []DrainAfterAllTasks /\ TableFrozenAfterDrain

\* C16's case: print_map is about to read a table into which a merge worker folded
\* one chunk's table during the run and the final drain folded another.
C16_Witness ==
    /\ mainpc = "print_map"
    /\ \E i, k \in 1..Len(workers) :
          folded[i].by = "queue_worker" /\ folded[k].by = "main"
    /\ \E j \in 1..Len(qworkers) : qworkers[j].pc = "done"

(***************************************************************************)
(* Progress                                                                *)
(***************************************************************************)
\* A step of the program itself, other than an aggregator's fold: every action but
\* Aggregate and the failure of the input, which the environment decides.
Progress ==
    \/ OpenFile \/ ReadChunk \/ TriggerMerge \/ ScopeJoin
    \/ TryLockOk \/ Push \/ TryLockFail
    \/ MergeStart \/ MergeLockQueue \/ MergeTake \/ MergeLockMap \/ MergeFold
    \/ MergeStoreExclusive
    \/ M_LockQueue \/ M_Take \/ M_LockMap \/ M_Fold \/ PrintMap

\* Aggregate is enabled: the process runs and some aggregator has yet to fold.
CanAggregate == Alive /\ \E i \in 1..Len(workers) : workers[i].pc = "run"

\* Weak fairness of Aggregate, WF_vars(Aggregate), with its enabling condition
\* written out.
AggregateFair == []<>(~CanAggregate) \/ []<><<Aggregate>>_vars

\* The runs followed to their end: the empty file, two records read as two chunks,
\* and a chunk with a value token of a shape parse_i32 does not match.
LiveInputs ==
    { <<>>,
      Line(nA, t1_0) \o Line(nB, t2_0),
      Line(nA, t1_0) \o Line(nA, t12) }

InitLive == Init /\ input \in LiveInputs /\ uuidOf = InjectiveUuid

\* The driving thread and the pool's threads are scheduled: while some task can
\* take a step, a step is taken.
FairSpec == InitLive /\ [][Next]_vars /\ WF_vars(Progress) /\ AggregateFair

EveryAggregatorEnded ==
    \A i \in 1..Len(workers) : workers[i].pc \in {"done", "panicked"}
EveryAggregatorPublished ==
    \A i \in 1..Len(workers) : workers[i].pc = "done" /\ Published(i) = 1

\* The retry loop itself ends: unless the process exits on a failure of the input,
\* from some point on no aggregator is left in its try_lock loop.
RetryLoopEnds == <>[](mainpc = "exit1" \/ EveryAggregatorEnded)

\* C17: under fair scheduling an aggregator that cannot acquire the queue lock keeps
\* retrying until it succeeds: every aggregator eventually publishes its table and
\* ends, and so the run reaches the final drain and print_map (unless the input
\* itself fails and the process exits).
C17_EveryAggregatorPublishes ==
    /\ <>[](mainpc = "exit1" \/ EveryAggregatorPublished)
    /\ <>(mainpc = "exit1" \/ (MainInPass /\ hangup))
    /\ <>(mainpc \in {"exit1", "done"})

(***************************************************************************)
(* The backoff of the try_lock loop (spawn_buffer_worker, lines 149-168)   *)
(***************************************************************************)
\* Consecutive failed try_lock attempts followed for one aggregator.
MAX_CONSECUTIVE_FAILURES == 65

\* A u64 as eight limbs of 8 bits, the least significant first.
LimbBase == 2 ^ 8
U64_LIMBS == 1..8
U64_ONE == [i \in U64_LIMBS |-> IF i = 1 THEN 1 ELSE 0]
U64_TWO == [i \in U64_LIMBS |-> IF i = 1 THEN 2 ELSE 0]

\* The limbs of the number whose columns are cols, from column i on, with a carry
\* coming in; the carry out of the last column is dropped.
RECURSIVE carried(_, _, _)
carried(cols, i, carry) ==
    IF i > Len(cols) THEN <<>>
    ELSE LET d == cols[i] + carry
         IN  <<d % LimbBase>> \o carried(cols, i + 1, d \div LimbBase)

\* The sum of the products x[j] * y[k] of column i (j + k - 1 = i).
RECURSIVE column(_, _, _, _)
column(x, y, i, j) ==
    IF j > i THEN 0 ELSE x[j] * y[i - j + 1] + column(x, y, i, j + 1)

\* u64 multiplication without overflow checks: the product modulo 2^64.
wrapping_mul(x, y) == carried([i \in U64_LIMBS |-> column(x, y, i, 1)], 1, 0)

\* u64::pow by squaring, as core computes it: acc and base are multiplied without
\* overflow checks.
RECURSIVE pow_loop(_, _, _)
pow_loop(base, acc, exp) ==
    LET next_acc == IF exp % 2 = 1 THEN wrapping_mul(acc, base) ELSE acc
    IN  IF exp = 1 THEN next_acc
        ELSE pow_loop(wrapping_mul(base, base), next_acc, exp \div 2)

pow(self, exp) == IF exp = 0 THEN U64_ONE ELSE pow_loop(self, U64_ONE, exp)

\* The tasks that may hold the queue's mutex while the aggregator tries it: another
\* aggregator pushing, or a merge pass taking the queue.
OtherHolders == {W(2), Q(1)}

InitBackoff ==
    /\ input = <<>>
    /\ uuidOf = InjectiveUuid
    /\ mainpc = "loop"
    /\ total_bytes_read = 0
    /\ iter_count = 0
    /\ hangup = FALSE
    /\ exclusive = TRUE
    /\ queue = <<>>
    /\ queue_lock \in OtherHolders \cup {Free}
    /\ map = EmptyMap
    /\ map_lock = Free
    /\ workers = <<>>
    /\ qworkers = <<>>
    /\ main_taken = <<>>
    /\ folded = <<>>
    /\ stdout = <<>>
    /\ groups = <<>>
    /\ direct = None
    /\ observed = <<>>
    /\ agg_steps = [runs |-> 0, merges |-> 0]
    /\ retry = [pc |-> "try_lock", lock_failures |-> 0, slept |-> <<>>]

\* Lines 155-166: try_lock would block; the failure is counted and the task sleeps
\* 2u64.pow(lock_failures) milliseconds before it tries again.
BackoffTryLockFail ==
    /\ retry.pc = "try_lock"
    /\ queue_lock # Free
    /\ retry.lock_failures < MAX_CONSECUTIVE_FAILURES
    /\ LET failures == retry.lock_failures + 1
           duration == pow(U64_TWO, failures)
       IN  retry' = [retry EXCEPT !.lock_failures = failures,
                                  !.slept = Append(@, duration)]
    /\ UNCHANGED <<pipeVars, aggVars>>

\* Lines 150-154: try_lock succeeds; the table is pushed and the loop is left.
BackoffTryLockOk ==
    /\ retry.pc = "try_lock"
    /\ queue_lock = Free
    /\ retry' = [retry EXCEPT !.pc = "done"]
    /\ UNCHANGED <<pipeVars, aggVars>>

\* Another task locks the queue (lines 150 and 189), or drops its guard (153, 194).
OtherTaskLocks ==
    /\ retry.pc = "try_lock"
    /\ queue_lock = Free
    /\ queue_lock' \in OtherHolders
    /\ UNCHANGED <<input, uuidOf, mainpc, total_bytes_read, iter_count, hangup, exclusive,
                   queue, map, map_lock, workers, qworkers, main_taken, folded, stdout>>
    /\ UNCHANGED <<aggVars, retryVars>>

OtherTaskUnlocks ==
    /\ retry.pc = "try_lock"
    /\ queue_lock # Free
    /\ queue_lock' = Free
    /\ UNCHANGED <<input, uuidOf, mainpc, total_bytes_read, iter_count, hangup, exclusive,
                   queue, map, map_lock, workers, qworkers, main_taken, folded, stdout>>
    /\ UNCHANGED <<aggVars, retryVars>>

NextBackoff ==
    \/ BackoffTryLockFail
    \/ BackoffTryLockOk
    \/ OtherTaskLocks
    \/ OtherTaskUnlocks

SpecBackoff == InitBackoff /\ [][NextBackoff]_vars

\* The exact power 2^k and the exact double of a u64, on limbs enough for both.
EXACT_LIMBS == 1..12
Widened(x) == [i \in EXACT_LIMBS |-> IF i <= Len(x) THEN x[i] ELSE 0]
ExactPow2(k) == [i \in EXACT_LIMBS |-> IF i = (k \div 8) + 1 THEN 2 ^ (k % 8) ELSE 0]
ExactDouble(x) == carried([i \in EXACT_LIMBS |-> 2 * Widened(x)[i]], 1, 0)

\* C18: the backoff delay doubles on each failed attempt: after the k-th consecutive
\* failed try_lock the wait is 2^k milliseconds, exactly twice the previous wait,
\* for every k >= 1, however many attempts fail.
C18_BackoffDoubles ==
    retry.pc # "none" =>
        /\ Len(retry.slept) = retry.lock_failures
        /\ \A k \in 1..Len(retry.slept) :
              /\ Widened(retry.slept[k]) = ExactPow2(k)
              /\ k >= 2 => Widened(retry.slept[k]) = ExactDouble(retry.slept[k - 1])

(***************************************************************************)
(* The chunks of the reader loop                                           *)
(***************************************************************************)
\* The lines of the chunks 1..n, in the order of the chunks.
RECURSIVE LinesOfChunks(_)
LinesOfChunks(n) == IF n = 0 THEN <<>> ELSE LinesOfChunks(n - 1) \o lines(Chunk(n))

\* Chunk i is the final chunk of the input: it reaches the end of the file.
IsFinalChunk(i) == i = Len(workers) /\ total_bytes_read = Len(input)

\* C19: the reader loop produces the chunks in source order; every chunk other than
\* the final one ends exactly at a record separator, no chunk handed to an
\* aggregator is empty, and the chunks concatenated are the input read so far (the
\* whole input once the loop has ended), so no record is split across two chunks.
C19_ChunksPartitionInput ==
    /\ \A i \in 1..Len(workers) :
          /\ Chunk(i) # <<>>
          /\ ~IsFinalChunk(i) => Chunk(i)[Len(Chunk(i))] = NL
    /\ ChunksJoined(Len(workers)) = SubSeq(input, 1, total_bytes_read)
    /\ LinesOfChunks(Len(workers)) = lines(SubSeq(input, 1, total_bytes_read))
    /\ hangup => total_bytes_read = Len(input)
    /\ total_bytes_read \in 0..Len(input)

\* C19's case: the loop has ended after three chunks, the final one of which ends
\* at the end of a file without a last record separator.
C19_Witness ==
    /\ hangup /\ Len(workers) = 3
    /\ input[Len(input)] # NL
    /\ Chunk(3)[Len(Chunk(3))] # NL /\ Chunk(1)[Len(Chunk(1))] = NL

(***************************************************************************)
(* The invariant of an aggregate                                           *)
(***************************************************************************)
\* min <= every value observed for the aggregate <= max.
MinMaxBracketObserved ==
    \A g \in Groups :
        groups[g].some =>
            /\ groups[g].val.min <= groups[g].val.max
            /\ \A v \in observed[g].values :
                  groups[g].val.min <= v /\ v <= groups[g].val.max

\* C20: in every reachable state every aggregate satisfies count >= 1 and
\* min <= every value observed for it <= max (so min <= max); new, update and
\* merge all preserve this.
C20_CountPositiveMinMaxBracket ==
    /\ MinMaxBracketObserved
    /\ \A g \in Groups : groups[g].some => groups[g].val.count # 0
    /\ direct.some => direct.val.count # 0 /\ direct.val.min <= direct.val.max

====
